---- MODULE Spec2Model ----
(***************************************************************************)
(* Model of crates/bevy_winit/src/accessibility.rs: the per-window         *)
(* adapter registry (AccessKitAdapters), the per-window handler registry   *)
(* (WinitActionRequestHandlers) of shared, mutex-guarded request queues    *)
(* (WinitActionRequestHandler), and the three PostUpdate systems           *)
(* window_closed, poll_receivers and update_accessibility_nodes as         *)
(* AccessKitPlugin::build schedules them.                                  *)
(*                                                                         *)
(* An Arc<Mutex<WinitActionRequestHandler>> is a queue id in 1..MaxQueues; *)
(* 0 stands for "no entry" / "no reference".  A request is tagged with the *)
(* queue it was pushed into and its position in that queue's push order,   *)
(* so that the emitted stream can be compared with the pushes.             *)
(***************************************************************************)
EXTENDS Integers, Sequences, FiniteSets, TLC

\* Bounds of the model.
NumWindows == 2
MaxQueues == 2
MaxReq == 3
MaxClosed == 2

Windows == 1..NumWindows
QueueIds == 1..MaxQueues
NoQueue == 0

WindowClosedSys == "window_closed"
PollSys == "poll_receivers"
UpdateSys == "update_accessibility_nodes"
Systems == {WindowClosedSys, PollSys, UpdateSys}

VARIABLES
    adapters,       \* AccessKitAdapters: the set of keys (the values are ())
    handlers,       \* WinitActionRequestHandlers: window -> queue id, 0 if absent
    queue,          \* contents of each WinitActionRequestHandler (VecDeque)
    poisoned,       \* poison flag of each queue's Mutex
    lock,           \* queue whose MutexGuard poll_receivers holds, 0 if none
    allocated,      \* number of WinitActionRequestHandler::new() calls so far
    pushed,         \* number of push_back calls made on each queue
    producer,       \* queue reference held by the windowing callback of a window
    events,         \* unread WindowClosed events of window_closed's EventReader
    actions,        \* ActionRequestWrapper events sent so far
    gate_read,      \* <<accessibility_requested, manage_accessibility_updates>> as
                    \* the run condition read them in this frame, <<>> before
    phase,          \* "idle" between frames, "run" while the system set runs
    done,           \* systems of the set that finished in the current frame
    poll_pc,        \* position of poll_receivers: "idle", "next", "drain"
    poll_rest,      \* windows handlers.iter() has still to yield
    panic,          \* "none", or the system that panicked
    update_invoked, \* update_accessibility_nodes was called in this frame
    frame_mark,     \* Len(actions) when the current frame's set started
    doomed,         \* requests pending at frame start in queues of windows
                    \* that had a WindowClosed event unread at frame start
    removed,        \* windows window_closed has processed an event for and
                    \* that were not prepared since
    held            \* contents of the locked queue when its lock was taken

vars == <<adapters, handlers, queue, poisoned, lock, allocated, pushed,
          producer, events, actions, gate_read, phase, done, poll_pc, poll_rest,
          panic, update_invoked, frame_mark, doomed, removed, held>>

registryVars == <<adapters, handlers>>
queueVars == <<queue, poisoned, lock, pushed>>
frameVars == <<phase, done, gate_read, update_invoked, frame_mark, doomed>>
pollVars == <<poll_pc, poll_rest, held>>

----------------------------------------------------------------------------
\* Helpers

Range(s) == {s[i] : i \in 1..Len(s)}

Keys(h) == {w \in Windows : h[w] # NoQueue}

Registered(q) == \E w \in Windows : handlers[w] = q

Held(q) == \E w \in Windows : producer[w] = q

RECURSIVE SumPushed(_, _)
SumPushed(f, S) ==
    IF S = {} THEN 0
    ELSE LET q == CHOOSE x \in S : TRUE IN f[q] + SumPushed(f, S \ {q})

\* The orders in which a hash map with key set S may yield its entries.
IterOrders(S) ==
    {s \in [1..Cardinality(S) -> S] : \A i, j \in 1..Cardinality(S) : s[i] = s[j] => i = j}

\* Subsequence of the sent events that came out of queue q.
RECURSIVE FromQueue(_, _)
FromQueue(acts, q) ==
    IF acts = <<>> THEN <<>>
    ELSE IF Head(acts).req.q = q THEN <<Head(acts)>> \o FromQueue(Tail(acts), q)
    ELSE FromQueue(Tail(acts), q)

\* ActionRequestWrapper(event): the tuple struct around one request.
ActionRequestWrapper(event) == [req |-> event]

\* WinitActionRequestHandler::new(): a fresh, empty, unpoisoned queue.
NewHandler == allocated + 1

\* An Arc whose last reference is gone is freed: its contents no longer exist.
Freed(q, h, p) == (\A w \in Windows : h[w] # q) /\ (\A w \in Windows : p[w] # q)

Reclaim(qs, h, p) == [q \in QueueIds |-> IF Freed(q, h, p) THEN <<>> ELSE qs[q]]

ReclaimPoison(ps, h, p) == [q \in QueueIds |-> IF Freed(q, h, p) THEN FALSE ELSE ps[q]]

----------------------------------------------------------------------------
Init ==
    /\ adapters = {}
    /\ handlers = [w \in Windows |-> NoQueue]
    /\ queue = [q \in QueueIds |-> <<>>]
    /\ poisoned = [q \in QueueIds |-> FALSE]
    /\ lock = NoQueue
    /\ allocated = 0
    /\ pushed = [q \in QueueIds |-> 0]
    /\ producer = [w \in Windows |-> NoQueue]
    /\ events = <<>>
    /\ actions = <<>>
    /\ gate_read = <<>>
    /\ phase = "idle"
    /\ done = {}
    /\ poll_pc = "idle"
    /\ poll_rest = <<>>
    /\ panic = "none"
    /\ update_invoked = FALSE
    /\ frame_mark = 0
    /\ doomed = {}
    /\ removed = {}
    /\ held = <<>>

----------------------------------------------------------------------------
\* prepare_accessibility_for_window

InsertAdapter(ad, entity) == ad \cup {entity}

\* A prepare that forgets the handler.
InsertHandler_Skipped(h, entity, action_request_handler) == h

\* An insert that keeps the entry a window already has.
InsertHandler_KeepExisting(h, entity, action_request_handler) ==
    IF h[entity] # NoQueue THEN h ELSE [h EXCEPT ![entity] = action_request_handler]

\* handlers.insert(entity, action_request_handler)
InsertHandler(h, entity, action_request_handler) ==
    [h EXCEPT ![entity] = action_request_handler]

\* The function takes both registries by &mut, so no system of the set is
\* running while it runs; poll_receivers borrows the handlers from begin to end.
prepare_accessibility_for_window(entity) ==
    /\ panic = "none"
    /\ poll_pc = "idle"
    /\ allocated < MaxQueues
    /\ LET action_request_handler == NewHandler
           h == InsertHandler(handlers, entity, action_request_handler)
       IN /\ allocated' = allocated + 1
          /\ adapters' = InsertAdapter(adapters, entity)
          /\ handlers' = h
          /\ queue' = Reclaim(queue, h, producer)
          /\ poisoned' = ReclaimPoison(poisoned, h, producer)
    /\ removed' = removed \ {entity}
    /\ UNCHANGED <<lock, pushed, producer, events, actions, frameVars,
                   pollVars, panic>>

----------------------------------------------------------------------------
\* The windowing side: holders of a clone of a window's Arc, pushing requests

\* Arc::clone of the registry's entry for w.
InstallProducer(w) ==
    /\ panic = "none"
    /\ handlers[w] # NoQueue
    /\ producer[w] # handlers[w]
    /\ producer' = [producer EXCEPT ![w] = handlers[w]]
    /\ queue' = Reclaim(queue, handlers, producer')
    /\ poisoned' = ReclaimPoison(poisoned, handlers, producer')
    /\ UNCHANGED <<registryVars, lock, allocated, pushed, events, actions,
                   frameVars, pollVars, panic, removed>>

\* The windowing layer releases its callback: the clone is dropped.
ReleaseProducer(w) ==
    /\ panic = "none"
    /\ producer[w] # NoQueue
    /\ lock # producer[w]
    /\ producer' = [producer EXCEPT ![w] = NoQueue]
    /\ queue' = Reclaim(queue, handlers, producer')
    /\ poisoned' = ReclaimPoison(poisoned, handlers, producer')
    /\ UNCHANGED <<registryVars, lock, allocated, pushed, events, actions,
                   frameVars, pollVars, panic, removed>>

\* A queue without mutual exclusion.
MutexFree_Unguarded(q) == TRUE

\* Mutex<WinitActionRequestHandler>: lock() succeeds only while nobody else
\* holds the guard; poll_receivers is the only holder across steps.
MutexFree(q) == lock # q

PushBack(qs, q, n) == [qs EXCEPT ![q] = Append(qs[q], [q |-> q, n |-> n])]

\* handler.lock().unwrap().push_back(request) on the producer's thread: it
\* needs the mutex, so it takes effect only while poll_receivers does not
\* hold the queue's guard.
Enqueue(w) ==
    /\ panic = "none"
    /\ producer[w] # NoQueue
    /\ MutexFree(producer[w])
    /\ ~poisoned[producer[w]]
    /\ SumPushed(pushed, QueueIds) < MaxReq
    /\ LET q == producer[w]
       IN /\ pushed' = [pushed EXCEPT ![q] = pushed[q] + 1]
          /\ queue' = PushBack(queue, q, pushed[q] + 1)
    /\ UNCHANGED <<registryVars, poisoned, lock, allocated, producer, events,
                   actions, frameVars, pollVars, panic, removed>>

\* A producer thread panics while it holds the queue's guard: the guard's
\* drop poisons the mutex.
PoisonQueue(w) ==
    /\ panic = "none"
    /\ producer[w] # NoQueue
    /\ MutexFree(producer[w])
    /\ ~poisoned[producer[w]]
    /\ poisoned' = [poisoned EXCEPT ![producer[w]] = TRUE]
    /\ UNCHANGED <<registryVars, queue, lock, allocated, pushed, producer,
                   events, actions, frameVars, pollVars, panic, removed>>

\* A WindowClosed event is sent.
SendWindowClosed(w) ==
    /\ panic = "none"
    /\ Len(events) < MaxClosed
    /\ events' = Append(events, w)
    /\ UNCHANGED <<registryVars, queueVars, allocated, producer, actions,
                   frameVars, pollVars, panic, removed>>

----------------------------------------------------------------------------
\* The frame: AccessKitPlugin::build puts the three systems in one set of
\* PostUpdate.  Each runs once per frame, window_closed before the other two.

\* Requests pending in the queues of the windows that have an unread
\* WindowClosed event.
PendingOfClosing ==
    UNION {Range(queue[handlers[w]]) : w \in Range(events) \cap Keys(handlers)}

FrameBegin ==
    /\ panic = "none"
    /\ phase = "idle"
    /\ phase' = "run"
    /\ done' = {}
    /\ frame_mark' = Len(actions)
    /\ doomed' = PendingOfClosing
    /\ UNCHANGED <<registryVars, queueVars, allocated, producer, events,
                   actions, pollVars, panic, removed, update_invoked,
                   gate_read>>

FrameEnd ==
    /\ panic = "none"
    /\ phase = "run"
    /\ done = Systems
    /\ phase' = "idle"
    /\ done' = {}
    /\ doomed' = {}
    /\ update_invoked' = FALSE
    /\ gate_read' = <<>>
    /\ frame_mark' = Len(actions)
    /\ UNCHANGED <<registryVars, queueVars, allocated, producer, events,
                   actions, pollVars, panic, removed>>

\* A schedule without the ordering constraint.
PollMayStart_Unordered == TRUE

\* window_closed.before(poll_receivers)
PollMayStart == WindowClosedSys \in done

\* window_closed.before(update_accessibility_nodes)
UpdateMayStart == WindowClosedSys \in done

----------------------------------------------------------------------------
\* window_closed

\* A cleanup that forgets the adapter.
RemoveAdapter_Skipped(ad, window) == ad

\* adapters.remove(window)
RemoveAdapter(ad, window) == ad \ {window}

\* A cleanup that forgets the handler.
RemoveHandler_Skipped(h, window) == h

\* A cleanup that clears the whole map.
RemoveHandler_ClearAll(h, window) == [w \in Windows |-> NoQueue]

\* handlers.remove(window)
RemoveHandler(h, window) == [h EXCEPT ![window] = NoQueue]

\* A removal that unwraps the returned Option: it panics on an absent key.
RemoveFails_IfAbsent(present, shared) == ~present

\* A removal that insists on being the queue's last owner.
RemoveFails_IfShared(present, shared) == shared

\* Both remove calls return an Option that is dropped: neither an absent key
\* nor a queue that other holders still reference makes the removal fail.
RemoveFails(present, shared) == FALSE

\* What is left unread once events.read() has been iterated to its end.
Unread(evts) == <<>>

\* A cleanup that handles only the first event it reads.
CloseEach_FirstOnly(evts, st) ==
    IF evts = <<>> THEN st
    ELSE [adapters |-> RemoveAdapter(st.adapters, Head(evts)),
          handlers |-> RemoveHandler(st.handlers, Head(evts)),
          failed |-> FALSE]

\* for WindowClosed { window, .. } in events.read() { ... }
RECURSIVE CloseEach(_, _)
CloseEach(evts, st) ==
    IF evts = <<>> \/ st.failed THEN st
    ELSE LET window == Head(evts)
             q == st.handlers[window]
         IN CloseEach(Tail(evts),
                [adapters |-> RemoveAdapter(st.adapters, window),
                 handlers |-> RemoveHandler(st.handlers, window),
                 failed |-> RemoveFails(window \in st.adapters /\ q # NoQueue,
                                        q # NoQueue /\ Held(q))])

window_closed ==
    /\ panic = "none"
    /\ phase = "run"
    /\ WindowClosedSys \notin done
    /\ poll_pc = "idle"
    /\ LET st == CloseEach(events, [adapters |-> adapters, handlers |-> handlers,
                                    failed |-> FALSE])
       IN /\ adapters' = st.adapters
          /\ handlers' = st.handlers
          /\ queue' = Reclaim(queue, st.handlers, producer)
          /\ poisoned' = ReclaimPoison(poisoned, st.handlers, producer)
          /\ panic' = IF st.failed THEN WindowClosedSys ELSE "none"
    /\ events' = Unread(events)
    /\ removed' = removed \cup Range(events)
    /\ done' = done \cup {WindowClosedSys}
    /\ UNCHANGED <<lock, allocated, pushed, producer, actions, phase,
                   update_invoked, frame_mark, doomed, pollVars, gate_read>>

----------------------------------------------------------------------------
\* poll_receivers

\* for (_id, handler) in handlers.iter(): the iteration order is the map's.
PollBegin ==
    /\ panic = "none"
    /\ phase = "run"
    /\ PollMayStart
    /\ PollSys \notin done
    /\ poll_pc = "idle"
    /\ \E order \in IterOrders(Keys(handlers)) : poll_rest' = order
    /\ poll_pc' = "next"
    /\ UNCHANGED <<registryVars, queueVars, allocated, producer, events,
                   actions, frameVars, panic, removed, held>>

\* An iteration that serves the last remaining entry instead of the next.
NextEntry_Last(rest) == rest[Len(rest)]

\* The entry the iterator yields next.
NextEntry(rest) == Head(rest)

\* let mut handler = handler.lock().unwrap(); on a poisoned mutex lock()
\* returns Err and unwrap panics.
PollLock ==
    /\ panic = "none"
    /\ poll_pc = "next"
    /\ poll_rest # <<>>
    /\ LET q == handlers[NextEntry(poll_rest)]
       IN IF poisoned[q]
          THEN /\ panic' = PollSys
               /\ UNCHANGED <<lock, poll_pc, held>>
          ELSE /\ lock' = q
               /\ poll_pc' = "drain"
               /\ held' = queue[q]
               /\ UNCHANGED panic
    /\ UNCHANGED <<registryVars, queue, poisoned, pushed, allocated, producer,
                   events, actions, frameVars, poll_rest, removed>>

\* A pop that takes the newest request instead of the oldest.
pop_back(qs, q) ==
    [event |-> qs[q][Len(qs[q])],
     rest |-> [qs EXCEPT ![q] = SubSeq(qs[q], 1, Len(qs[q]) - 1)]]

\* VecDeque::pop_front on a non-empty queue: the oldest request and what is left.
pop_front(qs, q) ==
    [event |-> Head(qs[q]), rest |-> [qs EXCEPT ![q] = Tail(qs[q])]]

\* A send that loses the event.
Send_Dropped(acts, event) == acts

\* actions.send(ActionRequestWrapper(event))
Send(acts, event) == Append(acts, ActionRequestWrapper(event))

\* while let Some(event) = handler.pop_front() { actions.send(..) }
PollPop ==
    /\ panic = "none"
    /\ poll_pc = "drain"
    /\ queue[lock] # <<>>
    /\ LET popped == pop_front(queue, lock)
       IN /\ actions' = Send(actions, popped.event)
          /\ queue' = popped.rest
    /\ UNCHANGED <<registryVars, poisoned, lock, pushed, allocated, producer,
                   events, frameVars, pollVars, panic, removed>>

\* pop_front() returned None: the loop ends and the guard is dropped.
PollUnlock ==
    /\ panic = "none"
    /\ poll_pc = "drain"
    /\ queue[lock] = <<>>
    /\ lock' = NoQueue
    /\ held' = <<>>
    /\ poll_rest' = Tail(poll_rest)
    /\ poll_pc' = "next"
    /\ UNCHANGED <<registryVars, queue, poisoned, pushed, allocated, producer,
                   events, actions, frameVars, panic, removed>>

PollEnd ==
    /\ panic = "none"
    /\ poll_pc = "next"
    /\ poll_rest = <<>>
    /\ poll_pc' = "idle"
    /\ done' = done \cup {PollSys}
    /\ UNCHANGED <<registryVars, queueVars, allocated, producer, events,
                   actions, phase, update_invoked, frame_mark, doomed,
                   poll_rest, held, panic, removed, gate_read>>

----------------------------------------------------------------------------
\* update_accessibility_nodes.run_if(should_update_accessibility_nodes)

\* A run condition that is satisfied by either flag.
should_update_EitherFlag(accessibility_requested, manage_accessibility_updates) ==
    accessibility_requested \/ manage_accessibility_updates

\* accessibility_requested.get() && manage_accessibility_updates.get()
should_update_accessibility_nodes(accessibility_requested, manage_accessibility_updates) ==
    accessibility_requested /\ manage_accessibility_updates

\* A body that drops the adapters it finds.
UpdateAdapters_Pruned(ad) == {}

\* The body of update_accessibility_nodes is empty: _adapters is not used.
UpdateAdapters(ad) == ad

\* The two flags are resources other subsystems set at any time: the run
\* condition reads whatever values they have when the scheduler evaluates it.
\* The body of update_accessibility_nodes is empty.
update_accessibility_nodes ==
    /\ panic = "none"
    /\ phase = "run"
    /\ UpdateMayStart
    /\ UpdateSys \notin done
    /\ \E accessibility_requested, manage_accessibility_updates \in BOOLEAN :
          /\ should_update_accessibility_nodes(accessibility_requested,
                                               manage_accessibility_updates)
          /\ gate_read' = <<accessibility_requested, manage_accessibility_updates>>
    /\ update_invoked' = TRUE
    /\ adapters' = UpdateAdapters(adapters)
    /\ done' = done \cup {UpdateSys}
    /\ UNCHANGED <<handlers, queueVars, allocated, producer, events,
                   actions, phase, frame_mark, doomed, pollVars, panic,
                   removed>>

\* The run condition is false: the scheduler skips the system for this frame.
SkipUpdate ==
    /\ panic = "none"
    /\ phase = "run"
    /\ UpdateMayStart
    /\ UpdateSys \notin done
    /\ \E accessibility_requested, manage_accessibility_updates \in BOOLEAN :
          /\ ~should_update_accessibility_nodes(accessibility_requested,
                                                manage_accessibility_updates)
          /\ gate_read' = <<accessibility_requested, manage_accessibility_updates>>
    /\ done' = done \cup {UpdateSys}
    /\ UNCHANGED <<registryVars, queueVars, allocated, producer, events,
                   actions, phase, update_invoked, frame_mark, doomed,
                   pollVars, panic, removed>>

----------------------------------------------------------------------------
Next ==
    \/ \E w \in Windows : prepare_accessibility_for_window(w)
    \/ \E w \in Windows : InstallProducer(w)
    \/ \E w \in Windows : ReleaseProducer(w)
    \/ \E w \in Windows : Enqueue(w)
    \/ \E w \in Windows : PoisonQueue(w)
    \/ \E w \in Windows : SendWindowClosed(w)
    \/ FrameBegin
    \/ window_closed
    \/ PollBegin
    \/ PollLock
    \/ PollPop
    \/ PollUnlock
    \/ PollEnd
    \/ update_accessibility_nodes
    \/ SkipUpdate
    \/ FrameEnd

Spec == Init /\ [][Next]_vars

\* poll_receivers is a plain loop without suspension points: once started it
\* keeps taking its next step until it returns or panics.
PollRunsOn ==
    /\ WF_vars(PollLock)
    /\ WF_vars(PollPop)
    /\ WF_vars(PollUnlock)
    /\ WF_vars(PollEnd)

SpecFair == Spec /\ PollRunsOn

----------------------------------------------------------------------------
\* Vocabulary of the properties

\* The requests of a sequence, each as the event poll_receivers sends for it.
Wrapped(reqs) == [i \in 1..Len(reqs) |-> ActionRequestWrapper(reqs[i])]

\* Everything ever pushed into queue q, in push order.
Pushes(q) == [i \in 1..pushed[q] |-> [q |-> q, n |-> i]]

\* The events sent since the current frame began.
SentThisFrame == SubSeq(actions, frame_mark + 1, Len(actions))

NoRepeats(s) == \A i, j \in 1..Len(s) : s[i] = s[j] => i = j

\* Steps of the systems, recognised by what they change.
WindowClosedStep == WindowClosedSys \notin done /\ WindowClosedSys \in done'
PollBeginStep == poll_pc = "idle" /\ poll_pc' = "next"
PollUnlockStep == lock # NoQueue /\ lock' = NoQueue
FrameEndStep == phase = "run" /\ phase' = "idle"

----------------------------------------------------------------------------
\* C1 - Registry parity: after every prepare and every close-cleanup run the
\* adapter registry and the handler registry have the same set of window keys.
RegistryParity == adapters = Keys(handlers)

\* Two windows were prepared, a close-cleanup removed one and kept the other.
RegistryParityWitness ==
    /\ allocated >= 2
    /\ WindowClosedSys \in done
    /\ removed # {}
    /\ Cardinality(adapters) = 1

\* C2 - FIFO per window: for a window that stays registered, the events sent
\* for its queue over all drains so far, followed by what is still pending,
\* are the pushes into that queue in push order.
FifoPerWindow ==
    \A q \in QueueIds :
        Registered(q) => FromQueue(actions, q) \o Wrapped(queue[q]) = Wrapped(Pushes(q))

\* Two requests of one registered queue were sent by drains of two frames.
FifoPerWindowWitness ==
    \E q \in QueueIds :
        /\ Registered(q)
        /\ Len(FromQueue(actions, q)) >= 2
        /\ frame_mark >= 1
        /\ Len(actions) > frame_mark

\* C3 - Cleanup precedence: poll_receivers starts only after window_closed
\* has run in the frame, and no request that was pending at the start of the
\* frame in the queue of a window with an unread WindowClosed event is sent.
CleanupPrecedence ==
    /\ (poll_pc # "idle" \/ PollSys \in done) => WindowClosedSys \in done
    /\ \A i \in 1..Len(actions) : actions[i].req \notin doomed

\* The drain of a frame finished, and requests were pending for a closing
\* window when that frame started.
CleanupPrecedenceWitness ==
    /\ doomed # {}
    /\ PollSys \in done
    /\ phase = "run"

\* C4 - Gating: when a frame ends, window_closed and poll_receivers have run
\* in it, and update_accessibility_nodes was invoked in it iff both flags read
\* true when the run condition was evaluated.
Gating ==
    [][FrameEndStep =>
          /\ WindowClosedSys \in done
          /\ PollSys \in done
          /\ update_invoked <=> (gate_read = <<TRUE, TRUE>>)]_vars

\* A frame with flags (false, true) sent an event and did not invoke
\* update_accessibility_nodes.
GatingWitness ==
    /\ done = Systems
    /\ gate_read = <<FALSE, TRUE>>
    /\ ~update_invoked
    /\ Len(actions) > frame_mark

\* C5 - No dangling entries: a window close-cleanup has processed a signal
\* for, and that was not prepared since, is in neither registry, is not
\* visited by the drain and does not own the queue the drain has locked; and
\* when that holds of every window after the cleanup of a frame, both
\* registries are empty and the frame has sent no event.
NoDanglingEntries ==
    /\ \A w \in removed : w \notin adapters /\ handlers[w] = NoQueue
    /\ Range(poll_rest) \cap removed = {}
    /\ lock # NoQueue => \E w \in Windows \ removed : handlers[w] = lock
    /\ (phase = "run" /\ WindowClosedSys \in done /\ removed = Windows) =>
          /\ adapters = {}
          /\ Keys(handlers) = {}
          /\ SentThisFrame = <<>>

\* Every window was prepared and got a signal in the same frame, requests
\* were pending, and the frame's three systems have run.
NoDanglingEntriesWitness ==
    /\ removed = Windows
    /\ allocated >= NumWindows
    /\ doomed # {}
    /\ done = Systems

\* C6 - Mutex poisoning on drain is a localized fault: poll_receivers does not
\* panic on a poisoned queue.
PoisonIsLocalized == panic # PollSys

\* C7 - Producer installation: a step that maps a window to a new queue
\* (prepare) leaves the windowing callback of that window with a reference to
\* that same queue.
ProducerInstalled ==
    [][\A w \in Windows :
          (handlers'[w] # handlers[w] /\ handlers'[w] # NoQueue)
              => producer'[w] = handlers'[w]]_vars

\* C8 - Idempotent close: a close-cleanup run does not fail and sends nothing;
\* it removes exactly the signalled windows from both registries however often
\* a signal is repeated, and when no signalled window is registered it leaves
\* both registries and every queue as they were.
IdempotentClose ==
    [][WindowClosedStep =>
          /\ panic' = "none"
          /\ actions' = actions
          /\ adapters' = adapters \ Range(events)
          /\ handlers' = [w \in Windows |->
                            IF w \in Range(events) THEN NoQueue ELSE handlers[w]]
          /\ (Range(events) \cap (adapters \cup Keys(handlers)) = {}) =>
                /\ adapters' = adapters
                /\ handlers' = handlers
                /\ queue' = queue]_vars

\* A close-cleanup has processed a signal although no window was ever prepared.
IdempotentCloseWitness ==
    /\ allocated = 0
    /\ removed # {}
    /\ WindowClosedSys \in done

\* C9 - Teardown safety: close-cleanup never fails, also when a producer still
\* holds the removed queue; a queue that left the handler registry never
\* returns to it, and every event sent comes out of a queue that is
\* registered, so what a producer pushes into a removed queue is never sent.
TeardownSafety ==
    [][/\ panic' # WindowClosedSys
       /\ \A q \in QueueIds :
             (q <= allocated /\ ~Registered(q)) => \A w \in Windows : handlers'[w] # q
       /\ Len(actions') > Len(actions) =>
             Registered(actions'[Len(actions')].req.q)]_vars

\* A producer holds a queue whose window was removed; requests are pending in
\* it after the frame's drain has finished.
TeardownSafetyWitness ==
    \E w \in removed :
        /\ producer[w] # NoQueue
        /\ ~Registered(producer[w])
        /\ queue[producer[w]] # <<>>
        /\ PollSys \in done

\* C10 - Drain completeness: poll_receivers visits every registered window
\* once; when it releases a queue's lock the queue is empty and the events it
\* sent while holding the lock are the requests that were pending when it
\* took the lock, one event each, in order; no request is ever sent twice.
DrainCompleteness ==
    [][/\ PollBeginStep =>
             Range(poll_rest') = Keys(handlers) /\ NoRepeats(poll_rest')
       /\ PollUnlockStep =>
             /\ queue[lock] = <<>>
             /\ Len(actions) >= Len(held)
             /\ SubSeq(actions, Len(actions) - Len(held) + 1, Len(actions))
                    = Wrapped(held)
       /\ NoRepeats(actions')]_vars

\* The drain holds the lock of a queue it has emptied of two requests, with
\* two windows registered.
DrainCompletenessWitness ==
    /\ poll_pc = "drain"
    /\ queue[lock] = <<>>
    /\ Len(held) >= 2
    /\ Cardinality(Keys(handlers)) >= 2

\* Further steps, recognised by what they change.
SystemStep == done' # done \/ poll_pc' # poll_pc \/ lock' # lock \/ actions' # actions
UpdateStep == ~update_invoked /\ update_invoked'
PrepareStep == allocated' = allocated + 1
SendStep == Len(actions') > Len(actions)

\* C11 - Atomic registration: every step that changes whether a window is in
\* one registry changes the other registry the same way in that same step,
\* and every step of a frame system starts with each window in both
\* registries or in neither.
AtomicRegistration ==
    [][/\ \A w \in Windows :
             ((w \in adapters') # (w \in adapters))
                 <=> ((handlers'[w] # NoQueue) # (handlers[w] # NoQueue))
       /\ SystemStep => \A w \in Windows : w \in adapters <=> handlers[w] # NoQueue]_vars

\* The three systems of a frame have run with two windows prepared.
AtomicRegistrationWitness ==
    /\ done = Systems
    /\ Cardinality(adapters) >= 2
    /\ Cardinality(Keys(handlers)) >= 2

\* C12 - Update-nodes has no side effect outside the adapters: a run of
\* update_accessibility_nodes leaves the key sets of both registries, the
\* contents of every queue and the sent events as they were.
UpdateHasNoSideEffect ==
    [][UpdateStep =>
          /\ adapters' = adapters
          /\ Keys(handlers') = Keys(handlers)
          /\ queue' = queue
          /\ actions' = actions]_vars

\* update_accessibility_nodes has run in a frame with a registered window,
\* a pending request and a sent event.
UpdateHasNoSideEffectWitness ==
    /\ update_invoked
    /\ adapters # {}
    /\ \E q \in QueueIds : queue[q] # <<>>
    /\ actions # <<>>

\* C13 - Drain is mutually exclusive with enqueue: while poll_receivers holds
\* a queue's lock nothing is pushed into that queue, the queue only shrinks
\* and the lock is released only once the queue is empty; the windows still
\* to visit only become fewer; so every drain that has started comes to its
\* end (or panics on a poisoned lock), whatever the producers do.
DrainExcludesEnqueue ==
    /\ [][/\ lock # NoQueue =>
                /\ lock' \in {lock, NoQueue}
                /\ pushed'[lock] = pushed[lock]
                /\ Len(queue'[lock]) <= Len(queue[lock])
                /\ lock' = NoQueue => queue[lock] = <<>>
          /\ (poll_pc # "idle" /\ poll_pc' # "idle") =>
                Len(poll_rest') <= Len(poll_rest)]_vars
    /\ (poll_pc # "idle") ~> (poll_pc = "idle" \/ panic # "none")

\* The drain holds the lock of a queue with requests left while a producer
\* that holds the same queue still has requests to push.
DrainExcludesEnqueueWitness ==
    /\ poll_pc = "drain"
    /\ queue[lock] # <<>>
    /\ Len(queue[lock]) < Len(held)
    /\ SumPushed(pushed, QueueIds) < MaxReq
    /\ \E w \in Windows : producer[w] = lock /\ ~poisoned[lock]

\* No queue's events are split by those of another queue.
Contiguous(s) ==
    \A i, k \in 1..Len(s) :
        (i < k /\ s[i].req.q = s[k].req.q) =>
            \A j \in i..k : s[j].req.q = s[i].req.q

\* C14 - Cross-window order of a drain is deterministic: every event sent is
\* the wrapped front request of the queue of the window the iteration is at,
\* the iteration only moves on to its next entry, and the events one frame's
\* drain sends for one queue are contiguous; so the sequence a drain sends is
\* fixed by the iteration order and the queue contents.
CrossWindowOrder ==
    [][/\ SendStep =>
             /\ poll_pc = "drain"
             /\ poll_rest # <<>>
             /\ lock = handlers[Head(poll_rest)]
             /\ queue[lock] # <<>>
             /\ actions' = Append(actions, ActionRequestWrapper(Head(queue[lock])))
       /\ (poll_pc # "idle" /\ poll_pc' # "idle" /\ poll_rest' # poll_rest) =>
             poll_rest' = Tail(poll_rest)
       /\ Contiguous(SentThisFrame')]_vars

\* One drain has sent three events, of two windows.
CrossWindowOrderWitness ==
    /\ phase = "run"
    /\ PollSys \in done
    /\ Len(SentThisFrame) >= 3
    /\ \E i, j \in 1..Len(SentThisFrame) :
          SentThisFrame[i].req.q # SentThisFrame[j].req.q

PollStep == poll_pc' # poll_pc \/ lock' # lock \/ SendStep

\* C15 - Close-cleanup and drain touch only what they name: a close-cleanup
\* run leaves the registry entries and the queue of every window it has no
\* signal for as they were, and a step of poll_receivers leaves the key sets
\* of both registries as they were and makes no queue longer.
TouchOnlyNamed ==
    [][/\ WindowClosedStep =>
             \A w \in Windows \ Range(events) :
                 /\ w \in adapters' <=> w \in adapters
                 /\ handlers'[w] = handlers[w]
                 /\ handlers[w] # NoQueue => queue'[handlers[w]] = queue[handlers[w]]
                 /\ producer[w] # NoQueue => queue'[producer[w]] = queue[producer[w]]
       /\ PollStep =>
             /\ adapters' = adapters
             /\ Keys(handlers') = Keys(handlers)
             /\ \A q \in QueueIds : Len(queue'[q]) <= Len(queue[q])]_vars

\* A frame's cleanup removed a window and its drain then sent the requests
\* of a window that stayed.
TouchOnlyNamedWitness ==
    /\ phase = "run"
    /\ PollSys \in done
    /\ removed # {}
    /\ adapters # {}
    /\ allocated >= 2
    /\ SentThisFrame # <<>>

\* C16 - Re-preparation replaces the queue: prepare maps its window to the
\* new, empty queue and leaves every other entry alone; when the window was
\* already registered the key sets of both registries stay as they were and
\* the window's old queue leaves the registry; a queue that is not in the
\* registry never returns to it and no event is sent out of it, whatever is
\* pending in it or pushed into it later.
RePrepareReplaces ==
    [][/\ PrepareStep =>
             \E w \in Windows :
                 /\ handlers'[w] = allocated'
                 /\ queue'[allocated'] = <<>>
                 /\ ~poisoned'[allocated']
                 /\ adapters' = adapters \cup {w}
                 /\ \A v \in Windows \ {w} : handlers'[v] = handlers[v]
                 /\ handlers[w] # NoQueue =>
                       /\ adapters' = adapters
                       /\ Keys(handlers') = Keys(handlers)
                       /\ handlers'[w] # handlers[w]
       /\ \A q \in QueueIds :
             (q <= allocated /\ ~Registered(q)) =>
                 /\ FromQueue(actions', q) = FromQueue(actions, q)
                 /\ \A w \in Windows : handlers'[w] # q]_vars

\* A window is mapped to a newer queue while its producer still holds the
\* older one with requests pending in it; a drain that began after the
\* replacement has visited every registered window and sent none of them.
RePrepareReplacesWitness ==
    \E w \in Windows :
        /\ producer[w] # NoQueue
        /\ handlers[w] # NoQueue
        /\ handlers[w] > producer[w]
        /\ queue[producer[w]] # <<>>
        /\ poll_pc = "next"
        /\ poll_rest = <<>>
        /\ FromQueue(SentThisFrame, producer[w]) = <<>>

\* C17 - Each window-closed signal is applied in exactly one frame: a
\* close-cleanup run removes every window it has an unread signal for, also
\* one prepared after the signal was sent, and leaves no signal unread; no
\* other step removes a window or brings a signal back, so a window prepared
\* after that run stays registered until a signal sent later is read.
SignalAppliedOnce ==
    [][/\ WindowClosedStep =>
             /\ events' = <<>>
             /\ \A w \in Range(events) : w \notin adapters' /\ handlers'[w] = NoQueue
       /\ \A w \in Windows :
             ((w \in adapters /\ w \notin adapters')
                  \/ (handlers[w] # NoQueue /\ handlers'[w] = NoQueue))
                 => (WindowClosedStep /\ w \in Range(events))
       /\ ~WindowClosedStep =>
             (events' = events \/ \E w \in Windows : events' = Append(events, w))]_vars

\* A window had a signal unread and requests pending when the frame began;
\* the frame's cleanup has consumed the signal, and the window, prepared
\* again after it, is in both registries with a newer queue.
SignalAppliedOnceWitness ==
    \E w \in Windows :
        /\ WindowClosedSys \in done
        /\ events = <<>>
        /\ producer[w] # NoQueue
        /\ \E r \in doomed : r.q = producer[w]
        /\ w \in adapters
        /\ handlers[w] > producer[w]

====
